---------------------------- MODULE Spec2Model ----------------------------
(***************************************************************************)
(* Model of the person-detection video pipeline.                           *)
(*                                                                         *)
(*   src/src/video_processor.py  VideoProcessor.process_video              *)
(*   src/src/detector.py         PersonDetector.detect_persons,            *)
(*                               PersonDetector.draw_detections            *)
(*                                                                         *)
(* process_video is a sequential loop; every statement that changes state  *)
(* or may raise is one step of the program counter pc.  Wall-clock time is *)
(* an integer number of clock ticks; a float quotient a / b is kept as the *)
(* exact fraction [num |-> a, den |-> b], and a division whose divisor is  *)
(* zero raises ZeroDivisionError, as Python's / does.  Real-valued box     *)
(* corners are fixed-point numbers with CoordScale units per pixel.        *)
(***************************************************************************)
EXTENDS Integers, Sequences, FiniteSets

VARIABLES
    \* ---- inputs of one process_video call (fixed by Init) ----
    num_frames,         \* frames the decoder really delivers
    fps,                \* int(cap.get(CAP_PROP_FPS))
    total_frames,       \* int(cap.get(CAP_PROP_FRAME_COUNT)), may misreport
    show_fps,           \* argument show_fps
    progress_callback,  \* TRUE iff a progress callback was supplied
    det_profile,        \* which detector stub answers model.predict
    time_profile,       \* how long each frame takes, in clock ticks
    text_height,        \* text height cv2.getTextSize reports for a label
    \* ---- control ----
    pc,                 \* position in process_video / in the detector calls
    error,              \* the exception that ended the call, or "none"
    \* ---- stream handles ----
    cap_state,          \* "none", "failed", "open", "released"
    out_state,          \* "none", "failed", "open", "released"
    cap_releases,       \* calls of cap.release()
    out_releases,       \* calls of out.release()
    \* ---- locals of process_video ----
    decoded,            \* frames cap.read() has returned so far
    frame,              \* 0-based index of the frame in hand, -1 if none
    boxes,              \* raw result.boxes of the frame in hand
    detections,         \* detect_persons' result for the frame in hand
    output_frame,       \* draw_detections' result (plus the FPS overlay)
    person_count_stats,
    processing_times,
    frame_count,
    written,            \* frames handed to out.write, in order
    clock,              \* time.time()
    start_time,
    frame_start,
    frame_time,
    calls,              \* invocations of the progress callback, in order
    stats               \* the returned summary

vars == << num_frames, fps, total_frames, show_fps, progress_callback,
           det_profile, time_profile, text_height, pc, error,
           cap_state, out_state, cap_releases, out_releases,
           decoded, frame, boxes, detections, output_frame,
           person_count_stats, processing_times, frame_count, written,
           clock, start_time, frame_start, frame_time, calls, stats >>

inputs == << num_frames, fps, total_frames, show_fps, progress_callback,
             det_profile, time_profile, text_height >>

-----------------------------------------------------------------------------
(* Bounds of the model *)

\* longest input stream
MaxFrames == 61
\* fixed-point units per pixel of a raw (real-valued) box corner
CoordScale == 2
\* largest raw x1 tried by the detector specification, in fixed-point units
MaxRawX == 1
\* largest width / height of a raw box tried, in fixed-point units
MaxRawExtent == 2
\* largest label text height tried, in pixels
MaxTextHeight == 14

(* Program constants *)

\* processing_times[-30:]
FpsWindow == 30
\* frame_count % 30 == 0
ProgressEvery == 30
\* text_y = y1 - 10 ... y1 + text_height + 10
LabelGap == 10
\* self.person_class_id = 0
PersonClassId == 0

-----------------------------------------------------------------------------
(* Arithmetic helpers *)

\* the float quotient a / b, b # 0, as an exact fraction
Rat(a, b) == [num |-> a, den |-> b]

\* the int or float 0 of an "else 0" branch
Zero == [num |-> 0, den |-> 1]

RECURSIVE SumSeq(_)
\* sum(list)
SumSeq(s) == IF s = << >> THEN 0 ELSE Head(s) + SumSeq(Tail(s))

RECURSIVE MaxSeq(_)
\* max(list) of a non-empty list
MaxSeq(s) ==
    IF Len(s) = 1 THEN s[1]
    ELSE LET m == MaxSeq(Tail(s)) IN IF Head(s) > m THEN Head(s) ELSE m

RECURSIVE MinSeq(_)
\* min(list) of a non-empty list
MinSeq(s) ==
    IF Len(s) = 1 THEN s[1]
    ELSE LET m == MinSeq(Tail(s)) IN IF Head(s) < m THEN Head(s) ELSE m

\* int(x) of a real x = n / CoordScale: truncation toward zero
IntTrunc(n) == IF n >= 0 THEN n \div CoordScale ELSE -((-n) \div CoordScale)

-----------------------------------------------------------------------------
(* The detector: src/src/detector.py *)

\* one raw box of result.boxes: real-valued corners, confidence (hundredths)
RawBox(x1, y1, x2, y2, c) ==
    [xyxy |-> << x1, y1, x2, y2 >>, conf |-> c, cls |-> PersonClassId]

\* "if x2 > x1 and y2 > y1", tested on the real-valued corners
ValidBox(b) == b.xyxy[3] > b.xyxy[1] /\ b.xyxy[4] > b.xyxy[2]

\* the dict appended for a box that passed the test
ToDetection(b) ==
    [bbox       |-> << IntTrunc(b.xyxy[1]), IntTrunc(b.xyxy[2]),
                       IntTrunc(b.xyxy[3]), IntTrunc(b.xyxy[4]) >>,
     confidence |-> b.conf,
     class_name |-> "person",
     class_id   |-> b.cls]

\* detect_persons: the boxes that pass the test, converted, in order
DetectPersons(bs) ==
    LET valid == SelectSeq(bs, ValidBox)
    IN  [i \in 1..Len(valid) |-> ToDetection(valid[i])]

\* the placement test with the text height forgotten (> 0 for > text_height)
TextYIgnoresHeight(y1, h) ==
    IF y1 - LabelGap > 0 THEN y1 - LabelGap ELSE y1 + h + LabelGap

\* text_y = y1 - 10 if y1 - 10 > text_height else y1 + text_height + 10
TextY(y1, h) ==
    IF y1 - LabelGap > h THEN y1 - LabelGap ELSE y1 + h + LabelGap

\* what draw_detections paints for one detection: the rectangle and the label
Label(det, h) ==
    LET y1 == det.bbox[2]
        ty == TextY(y1, h)
    IN  [rect   |-> det.bbox,
         text_y |-> ty,
         org    |-> << det.bbox[1] + 2, ty - 2 >>,
         conf   |-> det.confidence]

\* no FPS overlay on the frame
NoOverlay == [drawn |-> FALSE, window |-> << >>, avg_fps |-> Zero, persons |-> 0]

\* no frame
NoFrame == [src |-> -1, labels |-> << >>, overlay |-> NoOverlay]

\* draw_detections: a copy of the frame with every detection painted
DrawDetections(f, dets, h) ==
    [src     |-> f,
     labels  |-> [i \in 1..Len(dets) |-> Label(dets[i], h)],
     overlay |-> NoOverlay]

-----------------------------------------------------------------------------
(* Inputs: detector stubs and timing profiles *)

\* the box (0,0,1,1) with confidence 0.9
PersonBox == RawBox(0, 0, CoordScale, CoordScale, 90)
\* a box with room for the label above it
WideBox == RawBox(4 * CoordScale, 40 * CoordScale, 9 * CoordScale + 1, 60 * CoordScale, 55)
\* a box of zero width, which the validity test drops
EmptyBox == RawBox(5 * CoordScale, 5 * CoordScale, 5 * CoordScale, 8 * CoordScale, 40)
\* a box narrower than one pixel
SubPixelBox == RawBox(10 * CoordScale, 12 * CoordScale, 10 * CoordScale + 1, 15 * CoordScale, 35)

DetProfiles == {"none", "even", "crowd"}

\* result.boxes for the i-th frame (0-based) under a detector stub
RawBoxes(profile, i) ==
    CASE profile = "none"  -> << >>
      [] profile = "even"  -> IF i % 2 = 0 THEN << PersonBox >> ELSE << >>
      [] profile = "crowd" ->
            IF i % 3 = 0 THEN << >>
            ELSE IF i % 3 = 1 THEN << WideBox, EmptyBox >>
            ELSE << WideBox, SubPixelBox, PersonBox >>

TimeProfiles == {"zero", "saw", "ramp"}

\* clock ticks that pass between frame_start and the second time.time()
TimeOf(profile, i) ==
    CASE profile = "zero" -> 0
      [] profile = "saw"  -> (i + 1) % 3
      [] profile = "ramp" -> i + 1

\* stream lengths tried
StreamLengths ==
    {0, 1, 2, 10, ProgressEvery - 1, ProgressEvery, FpsWindow + 2,
     2 * ProgressEvery, MaxFrames}

\* frame counts the container may report for a stream of n frames
MetaTotals(n) == {0, n, n \div 2}

\* frame rates the container may report
MetaFps == {0, 25}

-----------------------------------------------------------------------------
(* process_video: src/src/video_processor.py *)

\* the summary before process_video has returned one
NoStats ==
    [total_frames |-> -1, total_time |-> 0, avg_fps |-> Zero,
     avg_persons |-> Zero, max_persons |-> 0, min_persons |-> 0]

\* raise: the call ends with exception e; nothing is released on the way out
Raise(e) == pc' = "raised" /\ error' = e

\* the slice forgotten: the whole history instead of its last 30 entries
LastWindowUnbounded(s) == s

\* processing_times[-30:]
LastWindow(s) ==
    SubSeq(s, IF Len(s) > FpsWindow THEN Len(s) - FpsWindow + 1 ELSE 1, Len(s))

\* the summary with the mean taken by floor division (// for /)
SummaryFloorMean(count, counts, elapsed) ==
    [total_frames |-> count,
     total_time   |-> elapsed,
     avg_fps      |-> IF elapsed > 0 THEN Rat(count, elapsed) ELSE Zero,
     avg_persons  |-> IF counts # << >>
                      THEN Rat(SumSeq(counts) \div Len(counts), 1) ELSE Zero,
     max_persons  |-> IF counts # << >> THEN MaxSeq(counts) ELSE 0,
     min_persons  |-> IF counts # << >> THEN MinSeq(counts) ELSE 0]

\* the summary of lines 159-175
Summary(count, counts, elapsed) ==
    [total_frames |-> count,
     total_time   |-> elapsed,
     avg_fps      |-> IF elapsed > 0 THEN Rat(count, elapsed) ELSE Zero,
     avg_persons  |-> IF counts # << >> THEN Rat(SumSeq(counts), Len(counts)) ELSE Zero,
     max_persons  |-> IF counts # << >> THEN MaxSeq(counts) ELSE 0,
     min_persons  |-> IF counts # << >> THEN MinSeq(counts) ELSE 0]

Idle ==
    /\ error = "none"
    /\ cap_state = "none" /\ out_state = "none"
    /\ cap_releases = 0 /\ out_releases = 0
    /\ decoded = 0 /\ frame = -1
    /\ detections = << >> /\ output_frame = NoFrame
    /\ person_count_stats = << >> /\ processing_times = << >>
    /\ frame_count = 0 /\ written = << >>
    /\ clock = 0 /\ start_time = 0 /\ frame_start = 0 /\ frame_time = 0
    /\ calls = << >> /\ stats = NoStats

\* the state when process_video is entered
Init ==
    /\ num_frames \in StreamLengths
    /\ total_frames \in MetaTotals(num_frames)
    /\ fps \in MetaFps
    /\ show_fps \in BOOLEAN
    /\ progress_callback \in BOOLEAN
    /\ det_profile \in DetProfiles
    /\ time_profile \in TimeProfiles
    /\ text_height = MaxTextHeight
    /\ boxes = << >>
    /\ pc = "start"
    /\ Idle

\* line 61-63: cv2.VideoCapture opens the input
OpenDecoder ==
    /\ pc = "start"
    /\ cap_state' = "open"
    /\ pc' = "metadata"
    /\ UNCHANGED << inputs, error, out_state, cap_releases, out_releases,
                    decoded, frame, boxes, detections, output_frame,
                    person_count_stats, processing_times, frame_count, written,
                    clock, start_time, frame_start, frame_time, calls, stats >>

\* line 63-66: cap.isOpened() is false
OpenDecoderFails ==
    /\ pc = "start"
    /\ cap_state' = "failed"
    /\ Raise("ValueError")
    /\ UNCHANGED << inputs, out_state, cap_releases, out_releases,
                    decoded, frame, boxes, detections, output_frame,
                    person_count_stats, processing_times, frame_count, written,
                    clock, start_time, frame_start, frame_time, calls, stats >>

\* lines 69-78: the metadata and the banner, which divides total_frames by fps
ReadMetadata ==
    /\ pc = "metadata"
    /\ IF fps = 0
       THEN Raise("ZeroDivisionError")
       ELSE pc' = "open_out" /\ error' = error
    /\ UNCHANGED << inputs, cap_state, out_state, cap_releases, out_releases,
                    decoded, frame, boxes, detections, output_frame,
                    person_count_stats, processing_times, frame_count, written,
                    clock, start_time, frame_start, frame_time, calls, stats >>

\* lines 81-98: the writer opens; the statistics start empty
OpenEncoder ==
    /\ pc = "open_out"
    /\ out_state' = "open"
    /\ frame_count' = 0
    /\ person_count_stats' = << >>
    /\ processing_times' = << >>
    /\ start_time' = clock
    /\ pc' = "read"
    /\ UNCHANGED << inputs, error, cap_state, cap_releases, out_releases,
                    decoded, frame, boxes, detections, output_frame, written,
                    clock, frame_start, frame_time, calls, stats >>

\* lines 89-92: out.isOpened() is false
OpenEncoderFails ==
    /\ pc = "open_out"
    /\ out_state' = "failed"
    /\ Raise("ValueError")
    /\ UNCHANGED << inputs, cap_state, cap_releases, out_releases,
                    decoded, frame, boxes, detections, output_frame,
                    person_count_stats, processing_times, frame_count, written,
                    clock, start_time, frame_start, frame_time, calls, stats >>

\* lines 103-109: ret, frame = cap.read(); at end of stream frame is None and
\* the loop breaks, else frame_start is noted
Read ==
    /\ pc = "read"
    /\ IF decoded < num_frames
       THEN /\ frame' = decoded
            /\ decoded' = decoded + 1
            /\ frame_start' = clock
            /\ pc' = "detect"
       ELSE /\ frame' = -1
            /\ pc' = "release"
            /\ UNCHANGED << decoded, frame_start >>
    /\ UNCHANGED << inputs, error, cap_state, out_state, cap_releases,
                    out_releases, boxes, detections, output_frame,
                    person_count_stats, processing_times, frame_count, written,
                    clock, start_time, frame_time, calls, stats >>

\* detect_persons, with the count appended only when somebody was detected
DetectSkipsEmpty ==
    /\ pc = "detect"
    /\ boxes' = RawBoxes(det_profile, frame)
    /\ detections' = DetectPersons(boxes')
    /\ person_count_stats' =
          IF detections' # << >>
          THEN Append(person_count_stats, Len(detections'))
          ELSE person_count_stats
    /\ pc' = "draw"
    /\ UNCHANGED << inputs, error, cap_state, out_state, cap_releases,
                    out_releases, decoded, frame, output_frame,
                    processing_times, frame_count, written,
                    clock, start_time, frame_start, frame_time, calls, stats >>

\* lines 112-113: detect_persons, then the count is appended
Detect ==
    /\ pc = "detect"
    /\ boxes' = RawBoxes(det_profile, frame)
    /\ detections' = DetectPersons(boxes')
    /\ person_count_stats' = Append(person_count_stats, Len(detections'))
    /\ pc' = "draw"
    /\ UNCHANGED << inputs, error, cap_state, out_state, cap_releases,
                    out_releases, decoded, frame, output_frame,
                    processing_times, frame_count, written,
                    clock, start_time, frame_start, frame_time, calls, stats >>

\* line 112: detect_persons raises
DetectFails ==
    /\ pc = "detect"
    /\ Raise("DetectorError")
    /\ UNCHANGED << inputs, cap_state, out_state, cap_releases, out_releases,
                    decoded, frame, boxes, detections, output_frame,
                    person_count_stats, processing_times, frame_count, written,
                    clock, start_time, frame_start, frame_time, calls, stats >>

\* line 116: draw_detections
Draw ==
    /\ pc = "draw"
    /\ output_frame' = DrawDetections(frame, detections, text_height)
    /\ pc' = "overlay"
    /\ UNCHANGED << inputs, error, cap_state, out_state, cap_releases,
                    out_releases, decoded, frame, boxes, detections,
                    person_count_stats, processing_times, frame_count, written,
                    clock, start_time, frame_start, frame_time, calls, stats >>

\* line 116: draw_detections raises
DrawFails ==
    /\ pc = "draw"
    /\ Raise("DrawError")
    /\ UNCHANGED << inputs, cap_state, out_state, cap_releases, out_releases,
                    decoded, frame, boxes, detections, output_frame,
                    person_count_stats, processing_times, frame_count, written,
                    clock, start_time, frame_start, frame_time, calls, stats >>

\* "if show_fps and len(processing_times) > 0"
OverlayDue(show, times) == show /\ Len(times) > 0

\* lines 119-132: the FPS line, from the durations recorded so far
Overlay ==
    /\ pc = "overlay"
    /\ IF OverlayDue(show_fps, processing_times)
       THEN LET window == LastWindow(processing_times)
            IN  IF SumSeq(window) = 0
                THEN /\ Raise("ZeroDivisionError")
                     /\ output_frame' = output_frame
                ELSE /\ output_frame' =
                            [output_frame EXCEPT !.overlay =
                                [drawn   |-> TRUE,
                                 window  |-> window,
                                 avg_fps |-> Rat(Len(window), SumSeq(window)),
                                 persons |-> Len(detections)]]
                     /\ pc' = "write"
                     /\ error' = error
       ELSE /\ pc' = "write"
            /\ UNCHANGED << error, output_frame >>
    /\ UNCHANGED << inputs, cap_state, out_state, cap_releases, out_releases,
                    decoded, frame, boxes, detections,
                    person_count_stats, processing_times, frame_count, written,
                    clock, start_time, frame_start, frame_time, calls, stats >>

\* line 135: out.write; the frame's work has taken its time by now
Write ==
    /\ pc = "write"
    /\ written' = Append(written, output_frame)
    /\ clock' = clock + TimeOf(time_profile, frame)
    /\ pc' = "time"
    /\ UNCHANGED << inputs, error, cap_state, out_state, cap_releases,
                    out_releases, decoded, frame, boxes, detections,
                    output_frame, person_count_stats, processing_times,
                    frame_count, start_time, frame_start, frame_time, calls,
                    stats >>

\* line 135: out.write raises
WriteFails ==
    /\ pc = "write"
    /\ Raise("WriteError")
    /\ UNCHANGED << inputs, cap_state, out_state, cap_releases, out_releases,
                    decoded, frame, boxes, detections, output_frame,
                    person_count_stats, processing_times, frame_count, written,
                    clock, start_time, frame_start, frame_time, calls, stats >>

\* lines 138-139: the frame's duration is measured and recorded
RecordTime ==
    /\ pc = "time"
    /\ frame_time' = clock - frame_start
    /\ processing_times' = Append(processing_times, frame_time')
    /\ pc' = "count"
    /\ UNCHANGED << inputs, error, cap_state, out_state, cap_releases,
                    out_releases, decoded, frame, boxes, detections,
                    output_frame, person_count_stats, frame_count, written,
                    clock, start_time, frame_start, calls, stats >>

\* line 141: frame_count += 1
CountFrame ==
    /\ pc = "count"
    /\ frame_count' = frame_count + 1
    /\ pc' = "progress"
    /\ UNCHANGED << inputs, error, cap_state, out_state, cap_releases,
                    out_releases, decoded, frame, boxes, detections,
                    output_frame, person_count_stats, processing_times, written,
                    clock, start_time, frame_start, frame_time, calls, stats >>

\* "if progress_callback and frame_count % 30 == 0"
ProgressDue(callback, count) == callback /\ count % ProgressEvery = 0

\* the arguments of lines 145-152, total # 0
ProgressCall(count, total, duration) ==
    [progress |-> Rat(count * 100, total),
     current  |-> count,
     total    |-> total,
     fps      |-> IF duration > 0 THEN Rat(1, duration) ELSE Zero]

\* lines 144-152: the progress callback, when due, is called and returns
Progress ==
    /\ pc = "progress"
    /\ IF ~ProgressDue(progress_callback, frame_count)
       THEN pc' = "read" /\ UNCHANGED << error, calls >>
       ELSE IF total_frames = 0
            THEN Raise("ZeroDivisionError") /\ calls' = calls
            ELSE /\ calls' = Append(calls, ProgressCall(frame_count, total_frames, frame_time))
                 /\ pc' = "read"
                 /\ error' = error
    /\ UNCHANGED << inputs, cap_state, out_state, cap_releases, out_releases,
                    decoded, frame, boxes, detections, output_frame,
                    person_count_stats, processing_times, frame_count, written,
                    clock, start_time, frame_start, frame_time, stats >>

\* lines 147-152: the progress callback is called and raises
ProgressFails ==
    /\ pc = "progress"
    /\ ProgressDue(progress_callback, frame_count)
    /\ total_frames # 0
    /\ calls' = Append(calls, ProgressCall(frame_count, total_frames, frame_time))
    /\ Raise("CallbackError")
    /\ UNCHANGED << inputs, cap_state, out_state, cap_releases, out_releases,
                    decoded, frame, boxes, detections, output_frame,
                    person_count_stats, processing_times, frame_count, written,
                    clock, start_time, frame_start, frame_time, stats >>

\* line 155: cap.release()
ReleaseCap ==
    /\ pc = "release"
    /\ cap_state' = "released"
    /\ cap_releases' = cap_releases + 1
    /\ pc' = "release_out"
    /\ UNCHANGED << inputs, error, out_state, out_releases,
                    decoded, frame, boxes, detections, output_frame,
                    person_count_stats, processing_times, frame_count, written,
                    clock, start_time, frame_start, frame_time, calls, stats >>

\* line 156: out.release()
ReleaseOut ==
    /\ pc = "release_out"
    /\ out_state' = "released"
    /\ out_releases' = out_releases + 1
    /\ pc' = "finalize"
    /\ UNCHANGED << inputs, error, cap_state, cap_releases,
                    decoded, frame, boxes, detections, output_frame,
                    person_count_stats, processing_times, frame_count, written,
                    clock, start_time, frame_start, frame_time, calls, stats >>

\* lines 159-179: the summary is computed and returned
Finalize ==
    /\ pc = "finalize"
    /\ stats' = Summary(frame_count, person_count_stats, clock - start_time)
    /\ pc' = "done"
    /\ UNCHANGED << inputs, error, cap_state, out_state, cap_releases,
                    out_releases, decoded, frame, boxes, detections,
                    output_frame, person_count_stats, processing_times,
                    frame_count, written, clock, start_time, frame_start,
                    frame_time, calls >>

Next ==
    \/ OpenDecoder
    \/ OpenDecoderFails
    \/ ReadMetadata
    \/ OpenEncoder
    \/ OpenEncoderFails
    \/ Read
    \/ Detect
    \/ DetectFails
    \/ Draw
    \/ DrawFails
    \/ Overlay
    \/ Write
    \/ WriteFails
    \/ RecordTime
    \/ CountFrame
    \/ Progress
    \/ ProgressFails
    \/ ReleaseCap
    \/ ReleaseOut
    \/ Finalize

Spec == Init /\ [][Next]_vars

-----------------------------------------------------------------------------
(* The detector on its own: detect_persons and draw_detections applied to   *)
(* one raw box                                                              *)

\* raw corners tried: x1, y1 and the signed extents x2 - x1, y2 - y1
RawBoxInputs ==
    { RawBox(x1, y1, x1 + dx, y1 + dy, 50) :
        x1 \in 0..MaxRawX,
        y1 \in 0..((LabelGap + MaxTextHeight + 2) * CoordScale),
        dx \in (-1)..MaxRawExtent,
        dy \in (-1)..MaxRawExtent }

\* the state when detect_persons is called on a frame with one raw box
InitDetector ==
    /\ num_frames = 1 /\ total_frames = 1 /\ fps = 25
    /\ show_fps = FALSE /\ progress_callback = FALSE
    /\ det_profile = "none" /\ time_profile = "zero"
    /\ text_height \in 1..MaxTextHeight
    /\ boxes \in { << b >> : b \in RawBoxInputs }
    /\ pc = "predict"
    /\ Idle

\* detector.py lines 70-93: detect_persons on the raw boxes
DetectorDetect ==
    /\ pc = "predict"
    /\ detections' = DetectPersons(boxes)
    /\ pc' = "annotate"
    /\ UNCHANGED << inputs, error, cap_state, out_state, cap_releases,
                    out_releases, decoded, frame, boxes, output_frame,
                    person_count_stats, processing_times, frame_count, written,
                    clock, start_time, frame_start, frame_time, calls, stats >>

\* detector.py lines 112-168: draw_detections on the result
DetectorDraw ==
    /\ pc = "annotate"
    /\ output_frame' = DrawDetections(0, detections, text_height)
    /\ pc' = "annotated"
    /\ UNCHANGED << inputs, error, cap_state, out_state, cap_releases,
                    out_releases, decoded, frame, boxes, detections,
                    person_count_stats, processing_times, frame_count, written,
                    clock, start_time, frame_start, frame_time, calls, stats >>

NextDetector ==
    \/ DetectorDetect
    \/ DetectorDraw

SpecDetector == InitDetector /\ [][NextDetector]_vars

-----------------------------------------------------------------------------
(* Properties *)

\* process_video has returned or raised
Terminated == pc \in {"done", "raised"}

\* control is inside the loop body, between two of its steps
InLoopBody == pc \in {"detect", "draw", "overlay", "write", "time", "count", "progress"}

\* control is at the top of the loop or past it
AtLoopHeadOrAfter == pc \in {"read", "release", "release_out", "finalize", "done"}

\* the exceptions a collaborator (decoder, encoder, detector, writer,
\* callback) raises, as opposed to those process_video's own arithmetic raises
CollaboratorErrors ==
    {"ValueError", "DetectorError", "DrawError", "WriteError", "CallbackError"}

\* the number of detections the detector reports for the i-th frame (0-based)
ExpectedCount(i) ==
    Cardinality({ j \in 1..Len(RawBoxes(det_profile, i)) :
                    ValidBox(RawBoxes(det_profile, i)[j]) })

\* C1: when process_video has returned, or has raised because the encoder did
\* not open or the detector, the annotation, the writer or the callback
\* failed, every handle it opened has been released, exactly once.
C1_HandlesReleasedOnEveryExit ==
    (Terminated /\ error \in CollaboratorErrors \cup {"none"}) =>
        /\ cap_state # "open"
        /\ out_state # "open"
        /\ cap_state = "released" => cap_releases = 1
        /\ out_state = "released" => out_releases = 1

\* C2 (as stated): frame_count, the length of person_count_stats and the
\* number of frames written are equal in every state, inside the loop body too.
C2_CountsEqualEverywhere ==
    /\ frame_count = Len(person_count_stats)
    /\ frame_count = Len(written)

\* C2 (amended): the three are equal whenever control is at the top of the
\* loop or past it (up to and including the return, where total_frames is the
\* same number); inside the loop body they are only ordered,
\* frame_count <= frames written <= len(person_count_stats) <= frame_count + 1.
C2_CountsEqualAtLoopHead ==
    /\ AtLoopHeadOrAfter =>
          /\ frame_count = Len(person_count_stats)
          /\ frame_count = Len(written)
    /\ pc = "done" => stats.total_frames = frame_count
    /\ frame_count <= Len(written)
    /\ Len(written) <= Len(person_count_stats)
    /\ Len(person_count_stats) <= frame_count + 1

\* C2 witness: the loop is back at its head after several frames, one of
\* them counted with no detection.
C2_Witness ==
    /\ pc = "read"
    /\ frame_count >= 3
    /\ \E k \in 1..Len(person_count_stats) : person_count_stats[k] = 0
    /\ frame_count = Len(written)

\* C3: with a callback supplied, whenever the progress step of a frame is
\* over, the callback has been invoked floor(frame_count / 30) times, the i-th
\* time with current = 30 * i (so non-decreasing), total = the metadata frame
\* count and percent = 100 * current / total; with none supplied, never.
C3_CallbackEveryThirtyFrames ==
    pc # "progress" =>
        IF progress_callback
        THEN /\ Len(calls) = frame_count \div ProgressEvery
             /\ \A i \in 1..Len(calls) :
                   /\ calls[i].current = ProgressEvery * i
                   /\ calls[i].total = total_frames
                   /\ calls[i].progress.num * total_frames
                        = 100 * calls[i].current * calls[i].progress.den
                   /\ i > 1 => calls[i - 1].current <= calls[i].current
        ELSE calls = << >>

\* C4: on a zero-frame input the loop body never runs, no division by zero
\* is raised anywhere in the call, and the summary returned is all zeros.
C4_ZeroFrameInputReturnsZeros ==
    num_frames = 0 =>
        /\ ~InLoopBody
        /\ error # "ZeroDivisionError"
        /\ pc = "done" =>
              /\ stats.total_frames = 0
              /\ stats.avg_fps.num = 0
              /\ stats.avg_persons.num = 0
              /\ stats.min_persons = 0
              /\ stats.max_persons = 0

\* C5: unless a collaborator fails, process_video does not end by raising;
\* it leaves the loop only when every frame of the stream has been decoded,
\* and then the k-th written frame is the annotation of the k-th decoded
\* frame and total_frames = frames decoded = len(person_count_stats).
C5_ReturnsWithEveryFrameInOrder ==
    /\ pc = "raised" => error \in CollaboratorErrors
    /\ pc \in {"release", "release_out", "finalize", "done"} =>
          /\ decoded = num_frames
          /\ Len(written) = decoded
          /\ \A k \in 1..Len(written) :
                /\ written[k].src = k - 1
                /\ written[k].labels =
                     DrawDetections(k - 1,
                                    DetectPersons(RawBoxes(det_profile, k - 1)),
                                    text_height).labels
    /\ pc = "done" =>
          /\ stats.total_frames = decoded
          /\ stats.total_frames = Len(person_count_stats)

\* C6: the summary of a run of at least one frame has
\* min_persons <= avg_persons <= max_persons, min_persons and max_persons the
\* least and greatest per-frame detection count, and avg_persons their sum
\* divided by the number of frames; the 10-frame stream with one detection on
\* even indices gives total_frames 10, max 1, min 0, avg 1/2.
C6_PersonStatistics ==
    (pc = "done" /\ frame_count >= 1) =>
        LET n == frame_count
            a == stats.avg_persons
        IN  /\ a.den > 0
            /\ stats.min_persons * a.den <= a.num
            /\ a.num <= stats.max_persons * a.den
            /\ \A k \in 1..n : stats.min_persons <= ExpectedCount(k - 1)
            /\ \E k \in 1..n : stats.min_persons = ExpectedCount(k - 1)
            /\ \A k \in 1..n : stats.max_persons >= ExpectedCount(k - 1)
            /\ \E k \in 1..n : stats.max_persons = ExpectedCount(k - 1)
            /\ a.num * n = SumSeq([k \in 1..n |-> ExpectedCount(k - 1)]) * a.den
            /\ (det_profile = "even" /\ num_frames = 10) =>
                  /\ stats.total_frames = 10
                  /\ stats.max_persons = 1
                  /\ stats.min_persons = 0
                  /\ 2 * a.num = a.den

\* C6 witness: the 10-frame run with one detection on even indices returned.
C6_Witness ==
    /\ pc = "done"
    /\ det_profile = "even"
    /\ stats.total_frames = 10
    /\ stats.max_persons = 1
    /\ stats.min_persons = 0

\* C7: every detection detect_persons returns has x2 > x1 and y2 > y1 in its
\* integer pixel coordinates.
C7_BoxesHavePositiveExtent ==
    \A i \in 1..Len(detections) :
        /\ detections[i].bbox[3] > detections[i].bbox[1]
        /\ detections[i].bbox[4] > detections[i].bbox[2]

\* C8: for every label draw_detections has painted, with y1 the box top and h
\* the text height: y1 < h + 10 puts the label below the top edge, at
\* y1 + h + 10; y1 - 10 > h puts it above, at y1 - 10; and it is always at
\* exactly one of the two places.
C8_LabelPlacement ==
    pc = "annotated" =>
        \A i \in 1..Len(output_frame.labels) :
            LET l  == output_frame.labels[i]
                y1 == l.rect[2]
                h  == text_height
            IN  /\ y1 < h + 10 => l.text_y = y1 + h + 10
                /\ y1 - 10 > h => l.text_y = y1 - 10
                /\ (l.text_y = y1 - 10) # (l.text_y = y1 + h + 10)

\* C8 witness: a label was painted above its box, which had the room for it.
C8_Witness ==
    /\ pc = "annotated"
    /\ Len(output_frame.labels) = 1
    /\ output_frame.labels[1].rect[2] - 10 > text_height
    /\ output_frame.labels[1].text_y = output_frame.labels[1].rect[2] - 10

\* C9: the k-th frame written carries the FPS overlay iff show_fps and k > 1;
\* its rolling average is over exactly the last min(30, k - 1) recorded
\* durations, those of the frames just before it, and the person count it
\* shows is that frame's own detection count.
C9_OverlayWindow ==
    \A k \in 1..Len(written) :
        LET o == written[k].overlay
            m == IF k - 1 < 30 THEN k - 1 ELSE 30
        IN  /\ o.drawn <=> (show_fps /\ k > 1)
            /\ o.drawn =>
                  /\ Len(o.window) = m
                  /\ \A j \in 1..m : o.window[j] = processing_times[k - 1 - m + j]
                  /\ o.avg_fps.num * SumSeq(o.window) = o.avg_fps.den * m
                  /\ o.persons = person_count_stats[k]

\* C9 witness: a frame later than the 31st was written with the overlay, its
\* window holding 30 durations.
C9_Witness ==
    /\ Len(written) > 32
    /\ written[Len(written)].overlay.drawn
    /\ Len(written[Len(written)].overlay.window) = 30
    /\ written[Len(written)].overlay.persons > 0

\* C10: once the decoder and the encoder are open, process_video never ends
\* with a division by zero, whatever the metadata, the number of frames and
\* the per-frame durations.
C10_NoDivisionByZero ==
    out_state = "open" => error # "ZeroDivisionError"

=============================================================================
